---- MODULE Spec2Model ----
(***************************************************************************)
(* Model of server/src/utils/lunar.js: the lunar calendar engine of the    *)
(* mingpi system (Gregorian -> lunar conversion over a packed table for    *)
(* 1900..2100, and the approximate solar-term month resolver).             *)
(*                                                                         *)
(* Times are counted in whole days: Date.UTC(..) / 86400000.  Every        *)
(* Date.UTC value the module builds is a midnight, so the division by      *)
(* 86400000 in the source is exact and the model keeps only the quotient.  *)
(* Chinese labels are written in pinyin.                                   *)
(*                                                                         *)
(* The second part models the accounts: the users table, the JWT and admin *)
(* middleware, and the login, change-password and user-management          *)
(* handlers of server/src/routes.                                          *)
(***************************************************************************)
EXTENDS Integers, Sequences, FiniteSets, TLC

\* How many years on each side of the supported range 1900..2100 the
\* callers try.
YearMargin == 2

\* How many month numbers on each side of 1..12 the callers try.
MonthMargin == 2

\* JavaScript's undefined, as a string table's out-of-range read prints it,
\* and null, the value the conversions return for a rejected input.
Undefined == "undefined"
null == [isNull |-> TRUE]

-----------------------------------------------------------------------------
(* Static tables, lunar.js lines 7-50 *)

lunarInfo == <<
    \h04bd8, \h04ae0, \h0a570, \h054d5, \h0d260, \h0d950, \h16554, \h056a0, \h09ad0, \h055d2,
    \h04ae0, \h0a5b6, \h0a4d0, \h0d250, \h1d255, \h0b540, \h0d6a0, \h0ada2, \h095b0, \h14977,
    \h04970, \h0a4b0, \h0b4b5, \h06a50, \h06d40, \h1ab54, \h02b60, \h09570, \h052f2, \h04970,
    \h06566, \h0d4a0, \h0ea50, \h06e95, \h05ad0, \h02b60, \h186e3, \h092e0, \h1c8d7, \h0c950,
    \h0d4a0, \h1d8a6, \h0b550, \h056a0, \h1a5b4, \h025d0, \h092d0, \h0d2b2, \h0a950, \h0b557,
    \h06ca0, \h0b550, \h15355, \h04da0, \h0a5b0, \h14573, \h052b0, \h0a9a8, \h0e950, \h06aa0,
    \h0aea6, \h0ab50, \h04b60, \h0aae4, \h0a570, \h05260, \h0f263, \h0d950, \h05b57, \h056a0,
    \h096d0, \h04dd5, \h04ad0, \h0a4d0, \h0d4d4, \h0d250, \h0d558, \h0b540, \h0b6a0, \h195a6,
    \h095b0, \h049b0, \h0a974, \h0a4b0, \h0b27a, \h06a50, \h06d40, \h0af46, \h0ab60, \h09570,
    \h04af5, \h04970, \h064b0, \h074a3, \h0ea50, \h06b58, \h055c0, \h0ab60, \h096d5, \h092e0,
    \h0c960, \h0d954, \h0d4a0, \h0da50, \h07552, \h056a0, \h0abb7, \h025d0, \h092d0, \h0cab5,
    \h0a950, \h0b4a0, \h0baa4, \h0ad50, \h055d9, \h04ba0, \h0a5b0, \h15176, \h052b0, \h0a930,
    \h07954, \h06aa0, \h0ad50, \h05b52, \h04b60, \h0a6e6, \h0a4e0, \h0d260, \h0ea65, \h0d530,
    \h05aa0, \h076a3, \h096d0, \h04afb, \h04ad0, \h0a4d0, \h1d0b6, \h0d250, \h0d520, \h0dd45,
    \h0b5a0, \h056d0, \h055b2, \h049b0, \h0a577, \h0a4b0, \h0aa50, \h1b255, \h06d20, \h0ada0,
    \h14b63, \h09370, \h049f8, \h04970, \h064b0, \h168a6, \h0ea50, \h06b20, \h1a6c4, \h0aae0,
    \h0a2e0, \h0d2e3, \h0c960, \h0d557, \h0d4a0, \h0da50, \h05d55, \h056a0, \h0a6d0, \h055d4,
    \h052d0, \h0a9b8, \h0a950, \h0b4a0, \h0b6a6, \h0ad50, \h055a0, \h0aba4, \h0a5b0, \h052b0,
    \h0b273, \h06930, \h07337, \h06aa0, \h0ad50, \h14b55, \h04b60, \h0a570, \h054e4, \h0d160,
    \h0e968, \h0d520, \h0daa0, \h16aa6, \h056d0, \h04ae0, \h0a9d4, \h0a2d0, \h0d150, \h0f252,
    \h0d520
>>

Gan == <<"jia", "yi", "bing", "ding", "wu", "ji", "geng", "xin", "ren", "gui">>
Zhi == <<"zi", "chou", "yin", "mao", "chen", "si", "wu", "wei", "shen", "you", "xu", "hai">>
Animals == <<"shu", "niu", "hu", "tu", "long", "she", "ma", "yang", "hou", "ji", "gou", "zhu">>
lunarMonths == <<"zheng", "er", "san", "si", "wu", "liu", "qi", "ba", "jiu", "shi", "dong", "la">>
lunarDays == <<"chu1", "chu2", "chu3", "chu4", "chu5", "chu6", "chu7", "chu8", "chu9", "chu10",
    "shi1", "shi2", "shi3", "shi4", "shi5", "shi6", "shi7", "shi8", "shi9", "er10",
    "nian1", "nian2", "nian3", "nian4", "nian5", "nian6", "nian7", "nian8", "nian9", "san10">>

jieQiMonthNames == <<
    "yin-yue(zheng-yue)", "mao-yue(er-yue)", "chen-yue(san-yue)", "si-yue(si-yue)",
    "wu-yue(wu-yue)", "wei-yue(liu-yue)", "shen-yue(qi-yue)", "you-yue(ba-yue)",
    "xu-yue(jiu-yue)", "hai-yue(shi-yue)", "zi-yue(dong-yue)", "chou-yue(la-yue)">>

jieQiMonthShortNames == <<"yin", "mao", "chen", "si", "wu", "wei", "shen", "you", "xu", "hai", "zi", "chou">>

-----------------------------------------------------------------------------
(* JavaScript primitives the module relies on *)

\* arr[i] of a JavaScript array (0-based): undefined outside 0..length-1.
At(arr, i) == IF i \in 0..(Len(arr) - 1) THEN arr[i + 1] ELSE Undefined

\* s + t on strings, where undefined is printed as "undefined".
Concat(s, t) == s \o t

\* Loops are written as recursive functions: the arguments of one call are the
\* loop variables at the head of one iteration.
AndBits[a \in Nat, b \in Nat] ==
    IF a = 0 \/ b = 0 THEN 0
    ELSE (a % 2) * (b % 2) + 2 * AndBits[a \div 2, b \div 2]

\* a & b on non-negative operands below 2^31
BitAnd(a, b) == AndBits[a, b]

\* The left operand of lunarInfo[y - 1900] & mask after ToInt32: the table
\* entry, and 0 for the undefined read outside the table.
lunarInfoBits(y) ==
    IF (y - 1900) \in 0..(Len(lunarInfo) - 1) THEN lunarInfo[y - 1900 + 1] ELSE 0

\* a >> n for a >= 0
Shr(a, n) == a \div (2 ^ n)

\* Date.UTC(y, m - 1, d) / 86400000: the day number (days since 1970-01-01)
\* of the proleptic Gregorian date; a day d past the end of month m runs
\* on into the following months, as in JavaScript.
DateUTC(y, m, d) ==
    LET yy  == IF m <= 2 THEN y - 1 ELSE y
        era == yy \div 400
        yoe == yy - era * 400
        mp  == IF m > 2 THEN m - 3 ELSE m + 9
        doy == (153 * mp + 2) \div 5 + d - 1
        doe == yoe * 365 + yoe \div 4 - yoe \div 100 + doy
    IN  era * 146097 + doe - 719468

\* UTCDate that reads the day with getUTCDay(), the day of the week
UTCDate_getUTCDay(t) ==
    LET z   == t + 719468
        era == z \div 146097
        doe == z - era * 146097
        yoe == (doe - doe \div 1460 + doe \div 36524 - doe \div 146096) \div 365
        doy == doe - (365 * yoe + yoe \div 4 - yoe \div 100)
        mp  == (5 * doy + 2) \div 153
        mm  == IF mp < 10 THEN mp + 3 ELSE mp - 9
    IN  [year  |-> yoe + era * 400 + (IF mm <= 2 THEN 1 ELSE 0),
         month |-> mm,
         day   |-> (t + 4) % 7]

\* new Date(t): getUTCFullYear(), getUTCMonth() + 1, getUTCDate() of day
\* number t.
UTCDate(t) ==
    LET z   == t + 719468
        era == z \div 146097
        doe == z - era * 146097
        yoe == (doe - doe \div 1460 + doe \div 36524 - doe \div 146096) \div 365
        doy == doe - (365 * yoe + yoe \div 4 - yoe \div 100)
        mp  == (5 * doy + 2) \div 153
        mm  == IF mp < 10 THEN mp + 3 ELSE mp - 9
    IN  [year  |-> yoe + era * 400 + (IF mm <= 2 THEN 1 ELSE 0),
         month |-> mm,
         day   |-> doy - (153 * mp + 2) \div 5 + 1]

-----------------------------------------------------------------------------
(* Table decoders, lunar.js lines 52-77 *)

leapMonth(y) == BitAnd(lunarInfoBits(y), 15)

\* leapDays that reads bit 16 without asking for a leap month
leapDays_bit16Only(y) ==
    IF BitAnd(lunarInfoBits(y), 65536) # 0 THEN 30 ELSE 29

leapDays(y) ==
    IF leapMonth(y) # 0
    THEN (IF BitAnd(lunarInfoBits(y), 65536) # 0 THEN 30 ELSE 29)
    ELSE 0

monthDays(y, m) ==
    IF BitAnd(lunarInfoBits(y), Shr(65536, m)) # 0 THEN 30 ELSE 29

\* for (let i = 0x8000; i > 0x8; i >>= 1) sum += (lunarInfo[y - 1900] & i) ? 1 : 0;
lYearDaysLoop[y \in Int, i \in Nat, sum \in Nat] ==
    IF i > 8
    THEN lYearDaysLoop[y, Shr(i, 1),
             sum + (IF BitAnd(lunarInfoBits(y), i) # 0 THEN 1 ELSE 0)]
    ELSE sum

\* lYearDays that leaves the leap month out
lYearDays_noLeap(y) == lYearDaysLoop[y, 32768, 348]

\* lYearDays whose loop starts one bit higher, at 0x10000, the bit of the leap
\* month's length
lYearDays_fromBit16(y) == lYearDaysLoop[y, 65536, 348] + leapDays(y)

lYearDays(y) == lYearDaysLoop[y, 32768, 348] + leapDays(y)

\* lYearDays is a pure function of the constant table; the walks below read
\* its values, computed once, for the years they can reach.
lYearDaysOf == [y \in 1900..2100 |-> lYearDays(y)]

-----------------------------------------------------------------------------
(* solarToLunar, lunar.js lines 86-143 *)

\* solarOffset with the epoch's month written 1-based: Date.UTC(1900, 1, 31)
solarOffset_epochMonth(y, m, d) == DateUTC(y, m, d) - DateUTC(1900, 2, 31)

\* Math.floor((Date.UTC(y, m - 1, d) - Date.UTC(1900, 0, 31)) / 86400000)
solarOffset(y, m, d) == DateUTC(y, m, d) - DateUTC(1900, 1, 31)

\* for (; year < 2101 && offset > 0; year++) { temp = lYearDays(year); offset -= temp; }
\* as far as the year stop, where the walk rests with its variables as they are.
yearWalkTo[year \in Int, offset \in Int, temp \in Int, stop \in Int] ==
    IF year < 2101 /\ offset > 0 /\ year < stop
    THEN yearWalkTo[year + 1, offset - lYearDaysOf[year], lYearDaysOf[year], stop]
    ELSE [year |-> year, offset |-> offset, temp |-> temp]

\* The loop variables, as a stretch leaves them.
WalkStates == [year : Int, offset : Int, temp : Int]

\* The loop resumed from the variables w of a stretch that has ended; the whole
\* loop is taken in four stretches (a stretch that the loop's own test has
\* ended leaves the later ones nothing to do): this keeps the evaluation of a
\* walk over two centuries shallow.
yearWalkOn[w \in WalkStates, stop \in Int] == yearWalkTo[w.year, w.offset, w.temp, stop]

yearWalk(year, offset, temp) ==
    yearWalkOn[yearWalkOn[yearWalkOn[yearWalkTo[year, offset, temp, 1950], 2000], 2050], 2101]

\* monthStep that never enters the leap month
monthStep_noLeapMonth(year, leap, month, offset, temp, isLeap) ==
    [month |-> month + 1, offset |-> offset - monthDays(year, month),
     temp |-> monthDays(year, month), isLeap |-> FALSE]

\* monthStep without the line that drops the leap flag past the leap month
monthStep_flagKept(year, leap, month, offset, temp, isLeap) ==
    LET enter   == leap > 0 /\ month = leap + 1 /\ ~isLeap
        month1  == IF enter THEN month - 1 ELSE month
        isLeap1 == IF enter THEN TRUE ELSE isLeap
        temp1   == IF enter THEN leapDays(year) ELSE monthDays(year, month)
    IN  [month |-> month1 + 1, offset |-> offset - temp1, temp |-> temp1, isLeap |-> isLeap1]

\* One pass through the body of the month loop, its month++ included.
monthStep(year, leap, month, offset, temp, isLeap) ==
    LET enter   == leap > 0 /\ month = leap + 1 /\ ~isLeap
        month1  == IF enter THEN month - 1 ELSE month
        isLeap1 == IF enter THEN TRUE ELSE isLeap
        temp1   == IF enter THEN leapDays(year) ELSE monthDays(year, month)
        isLeap2 == IF isLeap1 /\ month1 = leap + 1 THEN FALSE ELSE isLeap1
    IN  [month |-> month1 + 1, offset |-> offset - temp1, temp |-> temp1, isLeap |-> isLeap2]

\* for (; month < 13 && offset > 0; month++) { ... }
monthWalk[year \in Int, leap \in Int, month \in Int, offset \in Int, temp \in Int, isLeap \in BOOLEAN] ==
    IF month < 13 /\ offset > 0
    THEN LET s == monthStep(year, leap, month, offset, temp, isLeap)
         IN  monthWalk[year, leap, s.month, s.offset, s.temp, s.isLeap]
    ELSE [month |-> month, offset |-> offset, temp |-> temp, isLeap |-> isLeap]

\* tieBreak that always steps back into the leap month
tieBreak_oneSided(leap, month, offset, isLeap) ==
    IF offset = 0 /\ leap > 0 /\ month = leap + 1
    THEN [month |-> month - 1, isLeap |-> TRUE]
    ELSE [month |-> month, isLeap |-> isLeap]

\* tieBreak left out: the walk's month and flag stand
tieBreak_none(leap, month, offset, isLeap) == [month |-> month, isLeap |-> isLeap]

\* if (offset === 0 && leap > 0 && month === leap + 1) { ... }: the month and
\* the leap flag after the test.
tieBreak(leap, month, offset, isLeap) ==
    IF offset = 0 /\ leap > 0 /\ month = leap + 1
    THEN IF isLeap
         THEN [month |-> month, isLeap |-> FALSE]
         ELSE [month |-> month - 1, isLeap |-> TRUE]
    ELSE [month |-> month, isLeap |-> isLeap]

\* yearGanOf with the cycle length of the branches
yearGanOf_mod12(year) == At(Gan, (year - 4) % 12)

\* Gan[(year - 4) % 10], Zhi[(year - 4) % 12], Animals[(year - 4) % 12]
yearGanOf(year) == At(Gan, (year - 4) % 10)

yearZhiOf(year) == At(Zhi, (year - 4) % 12)

animalOf(year) == At(Animals, (year - 4) % 12)

\* The conversion of the day that lies offset0 days after 1900-01-31.
lunarOfOffset(offset0) ==
    LET yw      == yearWalk(1900, offset0, 0)
        over    == yw.offset < 0
        offset1 == IF over THEN yw.offset + yw.temp ELSE yw.offset
        year    == IF over THEN yw.year - 1 ELSE yw.year
        leap    == leapMonth(year)
        mw      == monthWalk[year, leap, 1, offset1, yw.temp, FALSE]
        tb      == tieBreak(leap, mw.month, mw.offset, mw.isLeap)
        back    == mw.offset < 0
        offset2 == IF back THEN mw.offset + mw.temp ELSE mw.offset
        month   == IF back THEN tb.month - 1 ELSE tb.month
        day     == offset2 + 1
    IN  [year      |-> year,
         month     |-> month,
         day       |-> day,
         isLeap    |-> tb.isLeap,
         monthDays |-> mw.temp,
         yearGan   |-> yearGanOf(year),
         yearZhi   |-> yearZhiOf(year),
         animal    |-> animalOf(year),
         monthName |-> Concat(At(lunarMonths, month - 1), "yue"),
         dayName   |-> At(lunarDays, day - 1)]

\* solarToLunar that tests the lower end of the range only
solarToLunar_noUpper(y, m, d) ==
    IF y < 1900 THEN null
    ELSE lunarOfOffset(solarOffset(y, m, d))

solarToLunar(y, m, d) ==
    IF y < 1900 \/ y > 2100 THEN null
    ELSE lunarOfOffset(solarOffset(y, m, d))

-----------------------------------------------------------------------------
(* getLunarMonthSolarRange, lunar.js lines 151-191 *)

\* for (let y = 1900; y < lunarYear; y++) daysFromBase += lYearDays(y);
\* as far as the year stop.
yearsFromBaseTo[y \in Int, lunarYear \in Int, daysFromBase \in Int, stop \in Int] ==
    IF y < lunarYear /\ y < stop
    THEN yearsFromBaseTo[y + 1, lunarYear, daysFromBase + lYearDaysOf[y], stop]
    ELSE daysFromBase

\* The whole loop, taken in four stretches like yearWalk.
yearsFromBase(y, lunarYear, daysFromBase) ==
    LET a == yearsFromBaseTo[y, lunarYear, daysFromBase, 1950]
        b == yearsFromBaseTo[IF lunarYear < 1950 THEN lunarYear ELSE 1950, lunarYear, a, 2000]
        c == yearsFromBaseTo[IF lunarYear < 2000 THEN lunarYear ELSE 2000, lunarYear, b, 2050]
    IN  yearsFromBaseTo[IF lunarYear < 2050 THEN lunarYear ELSE 2050, lunarYear, c, lunarYear]

\* monthSpan that forgets the leap month
monthSpan_noLeap(lunarYear, leap, m) == monthDays(lunarYear, m)

\* What one pass of the month loop adds: month m, and the leap month after it.
monthSpan(lunarYear, leap, m) ==
    monthDays(lunarYear, m) + (IF leap > 0 /\ m = leap THEN leapDays(lunarYear) ELSE 0)

\* for (let m = 1; m < lunarMonth; m++) { ... }
monthsFromBase[lunarYear \in Int, leap \in Int, m \in Int, lunarMonth \in Int, daysFromBase \in Int] ==
    IF m < lunarMonth
    THEN monthsFromBase[lunarYear, leap, m + 1, lunarMonth,
             daysFromBase + monthSpan(lunarYear, leap, m)]
    ELSE daysFromBase

\* getLunarMonthSolarRange that counts from the day before the epoch
getLunarMonthSolarRange_epochJan30(lunarYear, lunarMonth) ==
    IF lunarYear < 1900 \/ lunarYear > 2100 \/ lunarMonth < 1 \/ lunarMonth > 12
    THEN null
    ELSE LET daysFromBase == monthsFromBase[lunarYear, leapMonth(lunarYear), 1, lunarMonth,
                                 yearsFromBase(1900, lunarYear, 0)]
             startTime    == DateUTC(1900, 1, 30) + daysFromBase
             days         == monthDays(lunarYear, lunarMonth)
             endTime      == startTime + (days - 1)
         IN  [start |-> UTCDate(startTime), end |-> UTCDate(endTime), days |-> days]

\* getLunarMonthSolarRange whose end is a whole month after its start
getLunarMonthSolarRange_endFullSpan(lunarYear, lunarMonth) ==
    IF lunarYear < 1900 \/ lunarYear > 2100 \/ lunarMonth < 1 \/ lunarMonth > 12
    THEN null
    ELSE LET daysFromBase == monthsFromBase[lunarYear, leapMonth(lunarYear), 1, lunarMonth,
                                 yearsFromBase(1900, lunarYear, 0)]
             startTime    == DateUTC(1900, 1, 31) + daysFromBase
             days         == monthDays(lunarYear, lunarMonth)
             endTime      == startTime + days
         IN  [start |-> UTCDate(startTime), end |-> UTCDate(endTime), days |-> days]

\* getLunarMonthSolarRange whose test of the month starts at 0
getLunarMonthSolarRange_month0(lunarYear, lunarMonth) ==
    IF lunarYear < 1900 \/ lunarYear > 2100 \/ lunarMonth < 0 \/ lunarMonth > 12
    THEN null
    ELSE LET daysFromBase == monthsFromBase[lunarYear, leapMonth(lunarYear), 1, lunarMonth,
                                 yearsFromBase(1900, lunarYear, 0)]
             startTime    == DateUTC(1900, 1, 31) + daysFromBase
             days         == monthDays(lunarYear, lunarMonth)
             endTime      == startTime + (days - 1)
         IN  [start |-> UTCDate(startTime), end |-> UTCDate(endTime), days |-> days]

getLunarMonthSolarRange(lunarYear, lunarMonth) ==
    IF lunarYear < 1900 \/ lunarYear > 2100 \/ lunarMonth < 1 \/ lunarMonth > 12
    THEN null
    ELSE LET daysFromBase == monthsFromBase[lunarYear, leapMonth(lunarYear), 1, lunarMonth,
                                 yearsFromBase(1900, lunarYear, 0)]
             startTime    == DateUTC(1900, 1, 31) + daysFromBase
             days         == monthDays(lunarYear, lunarMonth)
             endTime      == startTime + (days - 1)
         IN  [start |-> UTCDate(startTime), end |-> UTCDate(endTime), days |-> days]

-----------------------------------------------------------------------------
(* getCurrentJieQiYearMonth, lunar.js lines 244-312 *)

\* jieQiMonthMap whose entry of October starts a day early
jieQiMonthMap_oct7 == <<
    [month |-> 12, startDay |-> 6],
    [month |-> 1, startDay |-> 4],
    [month |-> 2, startDay |-> 6],
    [month |-> 3, startDay |-> 5],
    [month |-> 4, startDay |-> 6],
    [month |-> 5, startDay |-> 6],
    [month |-> 6, startDay |-> 7],
    [month |-> 7, startDay |-> 8],
    [month |-> 8, startDay |-> 8],
    [month |-> 9, startDay |-> 7],
    [month |-> 10, startDay |-> 7],
    [month |-> 11, startDay |-> 7]>>

\* jieQiMonthMap with the entry of February starting on day 6, like its neighbours
jieQiMonthMap_feb6 == <<
    [month |-> 12, startDay |-> 6],
    [month |-> 1, startDay |-> 6],
    [month |-> 2, startDay |-> 6],
    [month |-> 3, startDay |-> 5],
    [month |-> 4, startDay |-> 6],
    [month |-> 5, startDay |-> 6],
    [month |-> 6, startDay |-> 7],
    [month |-> 7, startDay |-> 8],
    [month |-> 8, startDay |-> 8],
    [month |-> 9, startDay |-> 8],
    [month |-> 10, startDay |-> 7],
    [month |-> 11, startDay |-> 7]>>

\* jieQiMonthMap whose last entry repeats month 10, so that no entry stands for
\* December
jieQiMonthMap_noDecember == <<
    [month |-> 12, startDay |-> 6],
    [month |-> 1, startDay |-> 4],
    [month |-> 2, startDay |-> 6],
    [month |-> 3, startDay |-> 5],
    [month |-> 4, startDay |-> 6],
    [month |-> 5, startDay |-> 6],
    [month |-> 6, startDay |-> 7],
    [month |-> 7, startDay |-> 8],
    [month |-> 8, startDay |-> 8],
    [month |-> 9, startDay |-> 8],
    [month |-> 10, startDay |-> 7],
    [month |-> 10, startDay |-> 7]>>

jieQiMonthMap == <<
    [month |-> 12, startDay |-> 6],
    [month |-> 1, startDay |-> 4],
    [month |-> 2, startDay |-> 6],
    [month |-> 3, startDay |-> 5],
    [month |-> 4, startDay |-> 6],
    [month |-> 5, startDay |-> 6],
    [month |-> 6, startDay |-> 7],
    [month |-> 7, startDay |-> 8],
    [month |-> 8, startDay |-> 8],
    [month |-> 9, startDay |-> 8],
    [month |-> 10, startDay |-> 7],
    [month |-> 11, startDay |-> 7]>>

\* The table walk from index i on: the solar-term month it settles on, and
\* whether an entry matched (when none does, jieQiMonth keeps its initial
\* value).
jieQiWalk[i \in Nat, m \in Int, d \in Int, jieQiMonth \in Int] ==
    IF i < 12
    THEN LET curr      == jieQiMonthMap[i + 1]
             currMonth == IF curr.month = 12 THEN 1 ELSE curr.month + 1
         IN  IF currMonth = m
             THEN IF d >= curr.startDay
                  THEN [month |-> IF i = 0 THEN 12 ELSE i, matched |-> TRUE]
                  ELSE LET jm == IF i = 0 THEN 11 ELSE i - 1
                       IN  [month |-> IF jm = 0 THEN 12 ELSE jm, matched |-> TRUE]
             ELSE jieQiWalk[i + 1, m, d, jieQiMonth]
    ELSE [month |-> jieQiMonth, matched |-> FALSE]

\* jieQiYearOf that is the calendar year
jieQiYearOf_calendarYear(y, m, d) == y

\* jieQiYearOf with the boundary day counted to the old year
jieQiYearOf_dayLeq4(y, m, d) == IF m = 1 \/ (m = 2 /\ d <= 4) THEN y - 1 ELSE y

\* The solar-term year: the year before, ahead of li-chun.
jieQiYearOf(y, m, d) == IF m = 1 \/ (m = 2 /\ d < 4) THEN y - 1 ELSE y

\* now = [year, month, day] is what new Date() reports.
getCurrentJieQiYearMonth(now) ==
    LET jieQiMonth == jieQiWalk[0, now.month, now.day, 1].month
        jieQiYear  == jieQiYearOf(now.year, now.month, now.day)
    IN  [year       |-> jieQiYear,
         month      |-> jieQiMonth,
         monthName  |-> At(jieQiMonthNames, jieQiMonth - 1),
         shortName  |-> Concat(At(jieQiMonthShortNames, jieQiMonth - 1), "yue"),
         yearGanZhi |-> Concat(At(Gan, (jieQiYear - 4) % 10), At(Zhi, (jieQiYear - 4) % 12))]

-----------------------------------------------------------------------------
(* The name lookups, lunar.js lines 214-237 *)

getLunarMonthName(month) ==
    IF month < 1 \/ month > 12 THEN ""
    ELSE Concat(At(lunarMonths, month - 1), "yue")

getJieQiMonthName(month) ==
    IF month < 1 \/ month > 12 THEN ""
    ELSE At(jieQiMonthNames, month - 1)

\* getJieQiMonthShortName that returns the table entry as it is
getJieQiMonthShortName_bare(month) ==
    IF month < 1 \/ month > 12 THEN ""
    ELSE At(jieQiMonthShortNames, month - 1)

getJieQiMonthShortName(month) ==
    IF month < 1 \/ month > 12 THEN ""
    ELSE Concat(At(jieQiMonthShortNames, month - 1), "yue")

\* A property read of null raises a TypeError; the marker stands for the
\* exception that leaves getCurrentLunarYearMonth.
TypeError == [threw |-> "TypeError"]

\* The object getCurrentLunarYearMonth builds from the const lunar, or the
\* TypeError that reading lunar.year raises.
lunarYearMonthOf(l) ==
    IF l = null THEN TypeError
    ELSE [year       |-> l.year,
          month      |-> l.month,
          monthName  |-> Concat(At(lunarMonths, l.month - 1), "yue"),
          yearGanZhi |-> Concat(l.yearGan, l.yearZhi),
          animal     |-> l.animal]

\* getCurrentLunarYearMonth with the system date as its argument
getCurrentLunarYearMonth(now) ==
    lunarYearMonthOf(solarToLunar(now.year, now.month, now.day))

-----------------------------------------------------------------------------
(* The accounts: utils/password.js, and the values the handlers of           *)
(* routes/auth.js and routes/admin.js exchange with the users table.         *)

\* How many rows the users table ever holds (ids are AUTOINCREMENT: an id is
\* never given twice).
MaxUsers == 2

MinPasswordLength == 6

MaxPasswordLength == 50

\* process.env.ADMIN_PASSWORD || 'admin123'
adminPassword == "admin123"

\* generatePassword(length) draws a random password; the handlers that call
\* it take any member of the set.
generatePassword(length) ==
    {password \in {"aB3dE5gH"} : Len(password) = length}

\* Passwords of 5, 6, 50 and 51 characters that a client may send.
Short5 == "12345"

Exact6 == "123456"

Exact50 == "12345678901234567890123456789012345678901234567890"

Over51 == "123456789012345678901234567890123456789012345678901"

\* !v of a body field that is a string or is missing
Falsy(v) == v = Undefined \/ v = ""

\* bcrypt: the hash is not the password, and it verifies that password only.
hashPassword(password) == [bcrypt |-> password]

verifyPassword(password, hash) == hash = hashPassword(password)

validatePasswordStrength(password) ==
    IF Falsy(password) \/ Len(password) < MinPasswordLength
    THEN [valid |-> FALSE, message |-> "at least 6"]
    ELSE IF Len(password) > MaxPasswordLength
    THEN [valid |-> FALSE, message |-> "at most 50"]
    ELSE [valid |-> TRUE, message |-> ""]

\* The rows the mingpi table is given in a behaviour, and the items of a batch
MaxMingpi == 2

MaxItems == 2

\* The defaults of system_config: login_max_attempts, login_lock_minutes
login_max_attempts == 5

login_lock_minutes == 15

\* The minutes the clock runs, and the logins that can await verifyPassword at
\* a time
MaxClock == 16

MaxInFlight == 2

\* The value a middleware leaves in place of a status when it calls next().
PassedOn == 0

-----------------------------------------------------------------------------
(* The callers.  Each behaviour is one call: Init draws the Gregorian date   *)
(* that is passed to solarToLunar or that new Date() reports.                *)

VARIABLES
    arg,      \* the Gregorian date [year, month, day] of the call
    pc,       \* "call" before the call, "returned" after it, "ranged" after
              \* the range of the returned lunar month has been looked up
    lunar,    \* the value solarToLunar returned
    range,    \* the value getLunarMonthSolarRange returned
    jieqi,    \* the value getCurrentJieQiYearMonth returned
    matched,  \* whether the solar-term table walk matched an entry
    yearDays, \* what the table decoders returned for the year arg.year
    rangeNext,\* the value getLunarMonthSolarRange returned for the month after
    names,    \* what the month-name lookups returned, and for which month
    current,  \* the value getCurrentLunarYearMonth returned
    lunarNext,\* the value solarToLunar returned for the day after arg
    inverse,  \* what solarToLunar returned for the two ends of range
    rangeNextYear, \* the value getLunarMonthSolarRange returned for month 1 of
              \* the year after
    jieqiNext,\* the value getCurrentJieQiYearMonth returned on the day after arg
    decoded,  \* what leapMonth and leapDays returned for the year arg.year,
              \* beside the year's encoding
    users,    \* the users table: id -> row
    lastId,   \* the last id the users table has given out
    issued,   \* the user ids for which generateToken has signed a token
    req,      \* the request of the last step
    res,      \* the response to it
    locks,    \* the columns is_locked, login_fail_count and login_locked_until
              \* of the users table: id -> columns
    now,      \* the clock, in minutes
    inflight, \* the logins that await verifyPassword, in order of arrival
    mingpi,   \* the rows of the mingpi table
    lastMingpiId \* the last id the mingpi table has given out

\* The login locks, the clock and the mingpi table.
storeVars == <<locks, now, inflight, mingpi, lastMingpiId>>

\* The variables of the accounts.
webVars == <<users, lastId, issued, req, res, storeVars>>

\* The variables of the calls on the day, the month and the year after.
laterVars == <<lunarNext, inverse, rangeNextYear, jieqiNext, decoded>>

\* The variables of the calls that were added to the first ones.
moreVars == <<yearDays, rangeNext, names, current, webVars, laterVars>>

\* The variables of the calendar calls.
lunarVars == <<arg, pc, lunar, range, jieqi, matched, yearDays, rangeNext, names, current, laterVars>>

vars == <<lunarVars, webVars>>

UserIds == 1..MaxUsers

\* What stands at an id that has no row.
NoRow ==
    [exists |-> FALSE, is_admin |-> 0, must_change_password |-> 0,
     password_hash |-> hashPassword("")]

\* createDefaultAdmin on an empty table
InitDatabase ==
    /\ users = [id \in UserIds |->
                   IF id = 1
                   THEN [exists |-> TRUE, is_admin |-> 1, must_change_password |-> 1,
                         password_hash |-> hashPassword(adminPassword)]
                   ELSE NoRow]
    /\ lastId = 1

Request(route, authorization, id, password, oldPassword, newPassword) ==
    [route |-> route, authorization |-> authorization, id |-> id,
     password |-> password, oldPassword |-> oldPassword, newPassword |-> newPassword]

\* No Authorization header, or one that does not start with 'Bearer '.
NoAuthorization == [scheme |-> "none", userId |-> 0, verifies |-> FALSE]

\* A header 'Bearer <token>' whose token jwt.verify throws on (it is not
\* signed with JWT_SECRET, or it has expired): no payload is decoded.
BadToken == [scheme |-> "Bearer", userId |-> 0, verifies |-> FALSE]

\* A header 'Bearer <token>' whose token jwt.verify accepts, with the userId
\* of its payload
Token(userId) == [scheme |-> "Bearer", userId |-> userId, verifies |-> TRUE]

\* The headers a client can send: a token that verifies has been signed by
\* generateToken.
Authorizations == {NoAuthorization, BadToken} \cup {Token(id) : id \in issued}

\* The columns of a row as INSERT leaves them: is_locked INTEGER DEFAULT 0,
\* login_fail_count INTEGER DEFAULT 0, login_locked_until DATETIME.
NoLock == [is_locked |-> 0, login_fail_count |-> 0, login_locked_until |-> null]

\* No failed login, no login on its way, an empty mingpi table.
InitStore ==
    /\ locks = [id \in UserIds |-> NoLock]
    /\ now = 0
    /\ inflight = <<>>
    /\ mingpi = {}
    /\ lastMingpiId = 0

InitWeb ==
    /\ InitStore
    /\ InitDatabase
    /\ issued = {}
    /\ req = Request("none", NoAuthorization, 0, Undefined, Undefined, Undefined)
    /\ res = [status |-> PassedOn, handler |-> FALSE]

\* None of the later calls has been made.
InitLater ==
    /\ lunarNext = null
    /\ inverse = null
    /\ rangeNextYear = null
    /\ jieqiNext = null
    /\ decoded = null

Years == (1900 - YearMargin)..(2100 + YearMargin)

Dates == [year : Years, month : 1..12, day : 1..31]

Init ==
    /\ arg \in Dates
    /\ pc = "call"
    /\ lunar = null
    /\ range = null
    /\ jieqi = null
    /\ matched = FALSE
    /\ yearDays = null
    /\ rangeNext = null
    /\ names = null
    /\ current = null
    /\ InitLater
    /\ InitWeb

SolarToLunar ==
    /\ pc = "call"
    /\ lunar' = solarToLunar(arg.year, arg.month, arg.day)
    /\ pc' = "returned"
    /\ UNCHANGED <<arg, range, jieqi, matched>>
    /\ UNCHANGED moreVars

\* The way back: the Gregorian range of the lunar month just returned.
GetLunarMonthSolarRange ==
    /\ pc = "returned"
    /\ lunar # null
    /\ range' = getLunarMonthSolarRange(lunar.year, lunar.month)
    /\ pc' = "ranged"
    /\ UNCHANGED <<arg, lunar, jieqi, matched>>
    /\ UNCHANGED moreVars

GetCurrentJieQiYearMonth ==
    /\ pc = "call"
    /\ jieqi' = getCurrentJieQiYearMonth(arg)
    /\ matched' = jieQiWalk[0, arg.month, arg.day, 1].matched
    /\ pc' = "returned"
    /\ UNCHANGED <<arg, lunar, range>>
    /\ UNCHANGED moreVars

\* The table decoders on one year: lYearDays, monthDays of the months 1..12
\* and leapDays.
LYearDays ==
    /\ pc = "call"
    /\ yearDays' = [total  |-> lYearDays(arg.year),
                    months |-> [m \in 1..12 |-> monthDays(arg.year, m)],
                    leap   |-> leapDays(arg.year)]
    /\ pc' = "returned"
    /\ UNCHANGED <<arg, lunar, range, jieqi, matched, rangeNext, names, current>>
    /\ UNCHANGED <<webVars, laterVars>>

\* getLunarMonthSolarRange(lunarYear, lunarMonth) on the caller's own
\* arguments, arg.year and arg.month.
GetLunarMonthSolarRangeOf ==
    /\ pc = "call"
    /\ range' = getLunarMonthSolarRange(arg.year, arg.month)
    /\ pc' = "ranged"
    /\ UNCHANGED <<arg, lunar, jieqi, matched, yearDays, rangeNext, names, current>>
    /\ UNCHANGED <<webVars, laterVars>>

\* The caller goes on to the month after.
GetNextLunarMonthSolarRange ==
    /\ pc = "ranged"
    /\ rangeNext' = getLunarMonthSolarRange(arg.year, arg.month + 1)
    /\ pc' = "rangedNext"
    /\ UNCHANGED <<arg, lunar, range, jieqi, matched, yearDays, names, current>>
    /\ UNCHANGED <<webVars, laterVars>>

\* The three name lookups on one month number.
GetMonthNames ==
    /\ pc = "returned"
    /\ jieqi # null
    /\ \E month \in (1 - MonthMargin)..(12 + MonthMargin) :
           names' = [month     |-> month,
                     lunarName |-> getLunarMonthName(month),
                     monthName |-> getJieQiMonthName(month),
                     shortName |-> getJieQiMonthShortName(month)]
    /\ pc' = "named"
    /\ UNCHANGED <<arg, lunar, range, jieqi, matched, yearDays, rangeNext, current>>
    /\ UNCHANGED <<webVars, laterVars>>

\* getCurrentLunarYearMonth on the system date arg: it returns or it throws.
GetCurrentLunarYearMonth ==
    /\ pc = "call"
    /\ current' = getCurrentLunarYearMonth(arg)
    /\ pc' = IF current' = TypeError THEN "threw" ELSE "returned"
    /\ UNCHANGED <<arg, lunar, range, jieqi, matched, yearDays, rangeNext, names>>
    /\ UNCHANGED <<webVars, laterVars>>

\* solarToLunar on the calendar day after arg.
SolarToLunarNextDay ==
    /\ pc = "returned"
    /\ LET next == UTCDate(DateUTC(arg.year, arg.month, arg.day) + 1)
       IN  lunarNext' = solarToLunar(next.year, next.month, next.day)
    /\ pc' = "advanced"
    /\ UNCHANGED <<arg, lunar, range, jieqi, matched, yearDays, rangeNext, names, current>>
    /\ UNCHANGED <<inverse, rangeNextYear, jieqiNext, decoded>>
    /\ UNCHANGED webVars

\* solarToLunar on the two ends of the range just returned.
SolarToLunarOfRange ==
    /\ pc = "ranged"
    /\ range # null
    /\ inverse' = [start |-> solarToLunar(range.start.year, range.start.month, range.start.day),
                   end   |-> solarToLunar(range.end.year, range.end.month, range.end.day)]
    /\ pc' = "inverted"
    /\ UNCHANGED <<arg, lunar, range, jieqi, matched, yearDays, rangeNext, names, current>>
    /\ UNCHANGED <<lunarNext, rangeNextYear, jieqiNext, decoded>>
    /\ UNCHANGED webVars

\* The caller goes on to month 1 of the year after.
GetNextYearLunarMonthSolarRange ==
    /\ pc = "rangedNext"
    /\ rangeNextYear' = getLunarMonthSolarRange(arg.year + 1, 1)
    /\ pc' = "rangedNextYear"
    /\ UNCHANGED <<arg, lunar, range, jieqi, matched, yearDays, rangeNext, names, current>>
    /\ UNCHANGED <<lunarNext, inverse, jieqiNext, decoded>>
    /\ UNCHANGED webVars

\* getCurrentJieQiYearMonth when the clock reads the day after arg.
GetNextDayJieQiYearMonth ==
    /\ pc = "returned"
    /\ jieqi # null
    /\ jieqiNext' = getCurrentJieQiYearMonth(UTCDate(DateUTC(arg.year, arg.month, arg.day) + 1))
    /\ pc' = "resolvedNext"
    /\ UNCHANGED <<arg, lunar, range, jieqi, matched, yearDays, rangeNext, names, current>>
    /\ UNCHANGED <<lunarNext, inverse, rangeNextYear, decoded>>
    /\ UNCHANGED webVars

\* leapMonth and leapDays on one year, and the length of the table.
LeapDecoders ==
    /\ pc = "call"
    /\ decoded' = [leapMonth |-> leapMonth(arg.year),
                   leapDays  |-> leapDays(arg.year),
                   size      |-> Len(lunarInfo)]
    /\ pc' = "decoded"
    /\ UNCHANGED <<arg, lunar, range, jieqi, matched, yearDays, rangeNext, names, current>>
    /\ UNCHANGED <<lunarNext, inverse, rangeNextYear, jieqiNext>>
    /\ UNCHANGED webVars

\* The calendar converter
Next ==
    \/ SolarToLunar
    \/ GetLunarMonthSolarRange

Spec == Init /\ [][Next]_vars

\* The solar-term month resolver
NextJieQi == GetCurrentJieQiYearMonth

SpecJieQi == Init /\ [][NextJieQi]_vars

\* The table decoders, one year per behaviour
InitTable == Init /\ arg.month = 1 /\ arg.day = 1

NextTable == LYearDays

SpecTable == InitTable /\ [][NextTable]_vars

\* The month numbers the callers pass
MonthArgs == (1 - MonthMargin)..(12 + MonthMargin)

\* getLunarMonthSolarRange on any lunar year and month number
InitRange ==
    /\ arg \in [year : Years, month : MonthArgs, day : {1}]
    /\ pc = "call"
    /\ lunar = null
    /\ range = null
    /\ jieqi = null
    /\ matched = FALSE
    /\ yearDays = null
    /\ rangeNext = null
    /\ names = null
    /\ current = null
    /\ InitLater
    /\ InitWeb

NextRange ==
    \/ GetLunarMonthSolarRangeOf
    \/ GetNextLunarMonthSolarRange

SpecRange == InitRange /\ [][NextRange]_vars

\* The name lookups beside the resolver, on the days of one year (the year
\* plays no part in a solar-term month)
InitNames == Init /\ arg.year = 2000

NextNames ==
    \/ GetCurrentJieQiYearMonth
    \/ GetMonthNames

SpecNames == InitNames /\ [][NextNames]_vars

\* getCurrentLunarYearMonth on the first and the middle day of every month
\* of the years around the table
InitCurrent == Init /\ arg.day \in {1, 15}

NextCurrent == GetCurrentLunarYearMonth

SpecCurrent == InitCurrent /\ [][NextCurrent]_vars

\* The converter on two days that follow each other
NextSuccessor ==
    \/ SolarToLunar
    \/ SolarToLunarNextDay

SpecSuccessor == Init /\ [][NextSuccessor]_vars

\* The range of a lunar month, and the converter on its two ends
NextInverse ==
    \/ GetLunarMonthSolarRangeOf
    \/ SolarToLunarOfRange

SpecInverse == InitRange /\ [][NextInverse]_vars

\* The ranges of a month, of the month after it and of month 1 of the year after
NextRangeArithmetic ==
    \/ GetLunarMonthSolarRangeOf
    \/ GetNextLunarMonthSolarRange
    \/ GetNextYearLunarMonthSolarRange

SpecRangeArithmetic == InitRange /\ [][NextRangeArithmetic]_vars

\* The solar-term month resolver on two days that follow each other
NextJieQiSuccessor ==
    \/ GetCurrentJieQiYearMonth
    \/ GetNextDayJieQiYearMonth

SpecJieQiSuccessor == Init /\ [][NextJieQiSuccessor]_vars

\* The two leap decoders, one year per behaviour
NextDecoders == LeapDecoders

SpecDecoders == InitTable /\ [][NextDecoders]_vars

-----------------------------------------------------------------------------
(* The middleware and the handlers on the users table.  A step is one        *)
(* request, from its arrival to its response.  Where a handler awaits        *)
(* hashPassword before its write, the values it writes and the id of the row *)
(* it writes to are fixed before the await.                                  *)

\* queryOne('SELECT ... FROM users WHERE id = ?')
queryOne(id) ==
    IF id \in UserIds /\ users[id].exists THEN users[id] ELSE null

authMiddleware(authorization) ==
    IF authorization.scheme # "Bearer" THEN [status |-> 401, user |-> null]
    ELSE IF ~authorization.verifies THEN [status |-> 401, user |-> null]
    ELSE LET user == queryOne(authorization.userId)
         IN  IF user = null THEN [status |-> 401, user |-> null]
             ELSE [status |-> PassedOn,
                   user   |-> [id                 |-> authorization.userId,
                               isAdmin            |-> user.is_admin = 1,
                               mustChangePassword |-> user.must_change_password = 1]]

\* adminMiddleware that lets every logged-in user pass
adminMiddleware_anyUser(user) ==
    IF user = null THEN 401 ELSE PassedOn

adminMiddleware(user) ==
    IF user = null THEN 401
    ELSE IF ~user.isAdmin THEN 403
    ELSE PassedOn

\* app.use('/api/admin', authMiddleware, adminMiddleware, adminRoutes): the
\* status that answers the request before the router, or PassedOn
adminGate(authorization) ==
    LET auth == authMiddleware(authorization)
    IN  IF auth.status # PassedOn THEN auth.status ELSE adminMiddleware(auth.user)

\* change-password that never asks for the old password
isFirstLogin_always(user) == TRUE

isFirstLogin(user) == user.must_change_password = 1

AdminRoutes ==
    {"GET /api/admin/users", "POST /api/admin/users",
     "DELETE /api/admin/users/:id", "POST /api/admin/users/:id/reset-password"}

\* res.status(status).json(..) by a middleware (ran = FALSE) or by the route
\* handler (ran = TRUE), with no write to the database
Answer(r, status, ran) ==
    /\ req' = r
    /\ res' = [status |-> status, handler |-> ran]
    /\ UNCHANGED <<users, lastId, issued>>

\* POST /api/auth/login.  username is missing (id 0), or it is the username of
\* the row id (usernames are unique).  The columns is_locked, login_fail_count
\* and login_locked_until are not among the variables: whether one of the two
\* locks refuses the login is drawn with the request.
Login ==
    /\ \E id \in 0..MaxUsers, password \in {Undefined, adminPassword, "aB3dE5gH", Exact6},
          locked \in BOOLEAN :
          LET r    == Request("POST /api/auth/login", NoAuthorization, id, password,
                              Undefined, Undefined)
              user == queryOne(id)
          IN  IF id = 0 \/ Falsy(password) THEN Answer(r, 400, TRUE)
              ELSE IF user = null THEN Answer(r, 401, TRUE)
              ELSE IF locked THEN Answer(r, 403, TRUE)
              ELSE IF ~verifyPassword(password, user.password_hash) THEN Answer(r, 401, TRUE)
              ELSE /\ issued' = issued \cup {id}
                   /\ req' = r
                   /\ res' = [status |-> 200, handler |-> TRUE]
                   /\ UNCHANGED <<users, lastId>>
    /\ UNCHANGED <<lunarVars, storeVars>>

\* POST /api/auth/change-password
ChangePassword ==
    /\ \E authorization \in Authorizations,
          oldPassword \in {Undefined, adminPassword, Exact6},
          newPassword \in {Undefined, Short5, Exact6, Exact50, Over51} :
          LET r    == Request("POST /api/auth/change-password", authorization, 0,
                              Undefined, oldPassword, newPassword)
              auth == authMiddleware(authorization)
              user == queryOne(authorization.userId)
          IN  IF auth.status # PassedOn THEN Answer(r, auth.status, FALSE)
              ELSE IF user = null THEN Answer(r, 404, TRUE)
              ELSE IF isFirstLogin(user) /\ Falsy(newPassword) THEN Answer(r, 400, TRUE)
              ELSE IF ~isFirstLogin(user) /\ (Falsy(oldPassword) \/ Falsy(newPassword))
                   THEN Answer(r, 400, TRUE)
              ELSE IF ~isFirstLogin(user) /\ ~verifyPassword(oldPassword, user.password_hash)
                   THEN Answer(r, 400, TRUE)
              ELSE IF ~validatePasswordStrength(newPassword).valid THEN Answer(r, 400, TRUE)
              ELSE /\ users' = [users EXCEPT ![authorization.userId] =
                                   [@ EXCEPT !.password_hash = hashPassword(newPassword),
                                             !.must_change_password = 0]]
                   /\ req' = r
                   /\ res' = [status |-> 200, handler |-> TRUE]
                   /\ UNCHANGED <<lastId, issued>>
    /\ UNCHANGED <<lunarVars, storeVars>>

\* GET /api/admin/users
GetUsers ==
    /\ \E authorization \in Authorizations :
          LET r == Request("GET /api/admin/users", authorization, 0,
                           Undefined, Undefined, Undefined)
          IN  IF adminGate(authorization) # PassedOn
              THEN Answer(r, adminGate(authorization), FALSE)
              ELSE Answer(r, 200, TRUE)
    /\ UNCHANGED <<lunarVars, storeVars>>

\* POST /api/admin/users.  The username of the body is missing (id 0), that of
\* the row id, or a new one (id lastId + 1, the id the INSERT gives the row).
PostUsers ==
    /\ \E authorization \in Authorizations, id \in 0..(lastId + 1),
          password \in generatePassword(8) :
          LET r == Request("POST /api/admin/users", authorization, id,
                           Undefined, Undefined, Undefined)
          IN  IF adminGate(authorization) # PassedOn
              THEN Answer(r, adminGate(authorization), FALSE)
              ELSE IF id = 0 THEN Answer(r, 400, TRUE)
              ELSE IF id <= lastId /\ queryOne(id) # null THEN Answer(r, 400, TRUE)
              ELSE /\ id = lastId + 1
                   /\ lastId < MaxUsers
                   /\ users' = [users EXCEPT ![id] =
                                   [exists |-> TRUE, is_admin |-> 0, must_change_password |-> 1,
                                    password_hash |-> hashPassword(password)]]
                   /\ lastId' = id
                   /\ req' = r
                   /\ res' = [status |-> 200, handler |-> TRUE]
                   /\ UNCHANGED issued
    /\ UNCHANGED <<lunarVars, storeVars>>

\* DELETE /api/admin/users/:id
DeleteUser ==
    /\ \E authorization \in Authorizations, id \in UserIds :
          LET r == Request("DELETE /api/admin/users/:id", authorization, id,
                           Undefined, Undefined, Undefined)
          IN  IF adminGate(authorization) # PassedOn
              THEN Answer(r, adminGate(authorization), FALSE)
              ELSE IF id = authorization.userId THEN Answer(r, 400, TRUE)
              ELSE IF queryOne(id) = null THEN Answer(r, 404, TRUE)
              ELSE /\ users' = [users EXCEPT ![id] = NoRow]
                   /\ req' = r
                   /\ res' = [status |-> 200, handler |-> TRUE]
                   /\ UNCHANGED <<lastId, issued>>
    /\ UNCHANGED <<lunarVars, storeVars>>

\* POST /api/admin/users/:id/reset-password
ResetPassword ==
    /\ \E authorization \in Authorizations, id \in UserIds,
          password \in generatePassword(8) :
          LET r == Request("POST /api/admin/users/:id/reset-password", authorization, id,
                           Undefined, Undefined, Undefined)
          IN  IF adminGate(authorization) # PassedOn
              THEN Answer(r, adminGate(authorization), FALSE)
              ELSE IF queryOne(id) = null THEN Answer(r, 404, TRUE)
              ELSE /\ users' = [users EXCEPT ![id] =
                                   [@ EXCEPT !.password_hash = hashPassword(password),
                                             !.must_change_password = 1]]
                   /\ req' = r
                   /\ res' = [status |-> 200, handler |-> TRUE]
                   /\ UNCHANGED <<lastId, issued>>
    /\ UNCHANGED <<lunarVars, storeVars>>

-----------------------------------------------------------------------------
(* The login with its failure count and its lock, auth.js lines 17-151.  The *)
(* handler runs to its await of verifyPassword in one step and from there to *)
(* its response in another; other requests run in between.                   *)

\* isLoginLocked that never finds a lock
isLoginLocked_never(user, clock) == FALSE

\* isLoginLocked(user), with the time new Date() reads
isLoginLocked(user, clock) ==
    IF user.login_locked_until = null THEN FALSE
    ELSE user.login_locked_until.minute > clock

\* recordLoginFailure(userId): the lock columns it leaves in the row, with the
\* time datetime('now') reads
recordLoginFailure(row, clock) ==
    LET newCount == row.login_fail_count + 1
    IN  IF newCount >= login_max_attempts
        THEN [row EXCEPT !.login_fail_count = newCount,
                         !.login_locked_until = [minute |-> clock + login_lock_minutes]]
        ELSE [row EXCEPT !.login_fail_count = newCount]

\* resetLoginFailure(userId)
resetLoginFailure(row) ==
    [row EXCEPT !.login_fail_count = 0, !.login_locked_until = null]

\* The body of a POST /api/auth/login, and whether the handler is past its await
LoginRequest(id, password, resumed) ==
    [route |-> "POST /api/auth/login", id |-> id, password |-> password, resumed |-> resumed]

\* POST /api/auth/login as far as await verifyPassword(..): the handler keeps
\* the row it has read.
LoginUntilVerify ==
    /\ \E id \in 0..MaxUsers, password \in {Undefined, adminPassword, "aB3dE5gH"} :
          LET r    == LoginRequest(id, password, FALSE)
              user == queryOne(id)
          IN  IF id = 0 \/ Falsy(password) THEN Answer(r, 400, TRUE) /\ UNCHANGED inflight
              ELSE IF user = null THEN Answer(r, 401, TRUE) /\ UNCHANGED inflight
              ELSE IF isLoginLocked(locks[id], now) THEN Answer(r, 403, TRUE) /\ UNCHANGED inflight
              ELSE IF locks[id].is_locked = 1 THEN Answer(r, 403, TRUE) /\ UNCHANGED inflight
              ELSE /\ Len(inflight) < MaxInFlight
                   /\ inflight' = Append(inflight, [id |-> id, password |-> password,
                                                    password_hash |-> user.password_hash])
                   /\ req' = r
                   /\ res' = null
                   /\ UNCHANGED <<users, lastId, issued>>
    /\ UNCHANGED <<locks, now, mingpi, lastMingpiId>>
    /\ UNCHANGED lunarVars

\* POST /api/auth/login from the value of verifyPassword on.
LoginAfterVerify ==
    /\ \E i \in 1..Len(inflight) :
          LET login   == inflight[i]
              r       == LoginRequest(login.id, login.password, TRUE)
              isValid == verifyPassword(login.password, login.password_hash)
              failed  == recordLoginFailure(locks[login.id], now)
          IN  /\ inflight' = SubSeq(inflight, 1, i - 1) \o SubSeq(inflight, i + 1, Len(inflight))
              /\ req' = r
              /\ IF ~isValid
                 THEN /\ locks' = [locks EXCEPT ![login.id] = failed]
                      /\ res' = [status  |-> IF login_max_attempts - failed.login_fail_count <= 0
                                             THEN 403 ELSE 401,
                                 handler |-> TRUE]
                      /\ UNCHANGED issued
                 ELSE /\ locks' = [locks EXCEPT ![login.id] = resetLoginFailure(@)]
                      /\ issued' = issued \cup {login.id}
                      /\ res' = [status |-> 200, handler |-> TRUE]
    /\ UNCHANGED <<users, lastId, now, mingpi, lastMingpiId>>
    /\ UNCHANGED lunarVars

\* A minute passes.
Tick ==
    /\ now < MaxClock
    /\ now' = now + 1
    /\ UNCHANGED <<users, lastId, issued, req, res, locks, inflight, mingpi, lastMingpiId>>
    /\ UNCHANGED lunarVars

\* The database after the admin has created a second user and has locked the
\* account: POST /api/admin/users, POST /api/admin/users/:id/lock
InitLockout ==
    /\ arg = [year |-> 2000, month |-> 1, day |-> 1]
    /\ pc = "call"
    /\ lunar = null
    /\ range = null
    /\ jieqi = null
    /\ matched = FALSE
    /\ yearDays = null
    /\ rangeNext = null
    /\ names = null
    /\ current = null
    /\ InitLater
    /\ users = [id \in UserIds |->
                   IF id = 1
                   THEN [exists |-> TRUE, is_admin |-> 1, must_change_password |-> 1,
                         password_hash |-> hashPassword(adminPassword)]
                   ELSE IF id = 2
                   THEN [exists |-> TRUE, is_admin |-> 0, must_change_password |-> 1,
                         password_hash |-> hashPassword("aB3dE5gH")]
                   ELSE NoRow]
    /\ lastId = 2
    /\ issued = {}
    /\ req = Request("none", NoAuthorization, 0, Undefined, Undefined, Undefined)
    /\ res = [status |-> PassedOn, handler |-> FALSE]
    /\ locks = [id \in UserIds |-> IF id = 2 THEN [NoLock EXCEPT !.is_locked = 1] ELSE NoLock]
    /\ now = 0
    /\ inflight = <<>>
    /\ mingpi = {}
    /\ lastMingpiId = 0

NextLockout ==
    \/ LoginUntilVerify
    \/ LoginAfterVerify
    \/ Tick

SpecLockout == InitLockout /\ [][NextLockout]_vars

-----------------------------------------------------------------------------
(* The admin routes on the mingpi table, admin.js lines 376-700.  A row is   *)
(* its id and its key; the content of a row is not among its fields, so an   *)
(* UPDATE of the content leaves the table as it is.                          *)

\* The years and the months of the request bodies: 0 stands for the field
\* left out.
YearInputs == {0, 1899, 1900, 2100, 2101}

MonthInputs == {0, 1, 12, 13}

\* The items of a body {userId, lunarYear, items}
Items ==
    {[month |-> month, content |-> "text"] : month \in MonthInputs}
        \cup {[month |-> 1, content |-> ""]}

\* The rows of a body {data}; username is the id of the user who has the
\* name, 0 for a name that no user has.
DataRows ==
    {[username |-> username, lunarYear |-> ym[1], lunarMonth |-> ym[2], content |-> "text"] :
        username \in 0..MaxUsers,
        ym \in {<<1899, 1>>, <<1900, 1>>, <<2100, 12>>, <<2101, 12>>, <<2000, 0>>, <<2000, 13>>}}
        \cup {[username |-> 1, lunarYear |-> 2000, lunarMonth |-> 1, content |-> ""]}

\* The sequences of at most MaxItems elements of S
SeqsUpTo(S) == UNION {[1..n -> S] : n \in 0..MaxItems}

\* The table and its AUTOINCREMENT counter while a handler runs
Tables == [rows : SUBSET [id : Nat, user_id : Int, lunar_year : Int, lunar_month : Int],
           last : Nat]

\* SELECT id FROM mingpi WHERE user_id = ? AND lunar_year = ? AND lunar_month = ?
existingRows(rows, userId, lunarYear, lunarMonth) ==
    {row \in rows : /\ row.user_id = userId
                    /\ row.lunar_year = lunarYear
                    /\ row.lunar_month = lunarMonth}

\* if (existing) UPDATE .. SET content .. else INSERT INTO mingpi ..
upsert(table, userId, lunarYear, lunarMonth) ==
    IF existingRows(table.rows, userId, lunarYear, lunarMonth) # {}
    THEN table
    ELSE [rows |-> table.rows \cup {[id |-> table.last + 1, user_id |-> userId,
                                     lunar_year |-> lunarYear, lunar_month |-> lunarMonth]},
          last |-> table.last + 1]

\* for (const item of items) { ... } of the format {userId, lunarYear, items},
\* from item i on
importItems[i \in Nat, items \in Seq(Items), userId \in Int, lunarYear \in Int, table \in Tables] ==
    IF i > Len(items) THEN table
    ELSE LET item == items[i]
         IN  IF item.content = "" THEN importItems[i + 1, items, userId, lunarYear, table]
             ELSE IF item.month < 1 \/ item.month > 12
             THEN importItems[i + 1, items, userId, lunarYear, table]
             ELSE importItems[i + 1, items, userId, lunarYear,
                      upsert(table, userId, lunarYear, item.month)]

\* for (const row of data) { ... } of the format {data}, from row i on
importData[i \in Nat, data \in Seq(DataRows), table \in Tables] ==
    IF i > Len(data) THEN table
    ELSE LET row == data[i]
             uid == IF queryOne(row.username) = null THEN 0 ELSE row.username
         IN  IF row.content = "" THEN importData[i + 1, data, table]
             ELSE IF uid = 0 THEN importData[i + 1, data, table]
             ELSE IF row.lunarYear < 1900 \/ row.lunarYear > 2100
                     \/ row.lunarMonth < 1 \/ row.lunarMonth > 12
             THEN importData[i + 1, data, table]
             ELSE importData[i + 1, data, upsert(table, uid, row.lunarYear, row.lunarMonth)]

\* The request of an admin route on mingpi: the route and the Authorization
\* header, which the middleware reads before the router reads the body
MingpiRequest(route, authorization) ==
    [route |-> route, authorization |-> authorization]

\* The handler has written the table.
Written(r, table) ==
    /\ table.last <= MaxMingpi
    /\ mingpi' = table.rows
    /\ lastMingpiId' = table.last
    /\ req' = r
    /\ res' = [status |-> 200, handler |-> TRUE]
    /\ UNCHANGED <<users, lastId, issued>>

\* A response with no write to the mingpi table
AnswerMingpi(r, status, ran) == Answer(r, status, ran) /\ UNCHANGED <<mingpi, lastMingpiId>>

\* POST /api/admin/mingpi
PostMingpi ==
    /\ \E authorization \in Authorizations :
          LET r == MingpiRequest("POST /api/admin/mingpi", authorization)
          IN  IF adminGate(authorization) # PassedOn
              THEN AnswerMingpi(r, adminGate(authorization), FALSE)
              ELSE \E userId \in 0..MaxUsers, lunarYear \in YearInputs,
                      lunarMonth \in MonthInputs, content \in {"", "text"} :
                      IF userId = 0 \/ lunarYear = 0 \/ lunarMonth = 0 \/ content = ""
                      THEN AnswerMingpi(r, 400, TRUE)
                      ELSE IF lunarYear < 1900 \/ lunarYear > 2100
                              \/ lunarMonth < 1 \/ lunarMonth > 12
                      THEN AnswerMingpi(r, 400, TRUE)
                      ELSE IF queryOne(userId) = null THEN AnswerMingpi(r, 404, TRUE)
                      ELSE Written(r, upsert([rows |-> mingpi, last |-> lastMingpiId],
                                             userId, lunarYear, lunarMonth))
    /\ UNCHANGED <<locks, now, inflight>>
    /\ UNCHANGED lunarVars

\* POST /api/admin/mingpi/batch with a body {userId, lunarYear, items}
PostMingpiBatchItems ==
    /\ \E authorization \in Authorizations :
          LET r == MingpiRequest("POST /api/admin/mingpi/batch", authorization)
          IN  IF adminGate(authorization) # PassedOn
              THEN AnswerMingpi(r, adminGate(authorization), FALSE)
              ELSE \E userId \in 0..MaxUsers, lunarYear \in YearInputs,
                      items \in SeqsUpTo(Items) :
                      IF userId = 0 \/ lunarYear = 0 THEN AnswerMingpi(r, 400, TRUE)
                      ELSE IF queryOne(userId) = null THEN AnswerMingpi(r, 404, TRUE)
                      ELSE Written(r, importItems[1, items, userId, lunarYear,
                                                  [rows |-> mingpi, last |-> lastMingpiId]])
    /\ UNCHANGED <<locks, now, inflight>>
    /\ UNCHANGED lunarVars

\* POST /api/admin/mingpi/batch with a body {data}
PostMingpiBatchData ==
    /\ \E authorization \in Authorizations :
          LET r == MingpiRequest("POST /api/admin/mingpi/batch", authorization)
          IN  IF adminGate(authorization) # PassedOn
              THEN AnswerMingpi(r, adminGate(authorization), FALSE)
              ELSE \E data \in SeqsUpTo(DataRows) :
                      Written(r, importData[1, data, [rows |-> mingpi, last |-> lastMingpiId]])
    /\ UNCHANGED <<locks, now, inflight>>
    /\ UNCHANGED lunarVars

\* DELETE /api/admin/mingpi/:id
DeleteMingpi ==
    /\ \E authorization \in Authorizations :
          LET r == MingpiRequest("DELETE /api/admin/mingpi/:id", authorization)
          IN  IF adminGate(authorization) # PassedOn
              THEN AnswerMingpi(r, adminGate(authorization), FALSE)
              ELSE \E mingpiId \in 1..MaxMingpi :
                      IF {row \in mingpi : row.id = mingpiId} = {}
                      THEN AnswerMingpi(r, 404, TRUE)
                      ELSE Written(r, [rows |-> {row \in mingpi : row.id # mingpiId},
                                       last |-> lastMingpiId])
    /\ UNCHANGED <<locks, now, inflight>>
    /\ UNCHANGED lunarVars

\* DELETE /api/admin/mingpi/batch
DeleteMingpiBatch ==
    /\ \E authorization \in Authorizations :
          LET r == MingpiRequest("DELETE /api/admin/mingpi/batch", authorization)
          IN  IF adminGate(authorization) # PassedOn
              THEN AnswerMingpi(r, adminGate(authorization), FALSE)
              ELSE \E userId \in 0..MaxUsers, lunarYear \in YearInputs :
                      IF userId = 0 THEN AnswerMingpi(r, 400, TRUE)
                      ELSE IF queryOne(userId) = null THEN AnswerMingpi(r, 404, TRUE)
                      ELSE Written(r, [rows |-> {row \in mingpi :
                                                    ~(/\ row.user_id = userId
                                                      /\ (lunarYear # 0 =>
                                                             row.lunar_year = lunarYear))},
                                       last |-> lastMingpiId])
    /\ UNCHANGED <<locks, now, inflight>>
    /\ UNCHANGED lunarVars

\* The accounts, from the database that createDefaultAdmin leaves
InitAccounts == Init /\ arg = [year |-> 2000, month |-> 1, day |-> 1]

NextAccounts ==
    \/ Login
    \/ ChangePassword
    \/ GetUsers
    \/ PostUsers
    \/ DeleteUser
    \/ ResetPassword

SpecAccounts == InitAccounts /\ [][NextAccounts]_vars

\* The admin logs in and works on the mingpi table.
NextMingpi ==
    \/ Login
    \/ PostMingpi
    \/ PostMingpiBatchItems
    \/ PostMingpiBatchData
    \/ DeleteMingpi
    \/ DeleteMingpiBatch

SpecMingpi == InitAccounts /\ [][NextMingpi]_vars

-----------------------------------------------------------------------------
(* Vocabulary of the properties *)

\* solarToLunar has returned, and returned a LunarDate.
Accepted == pc \in {"returned", "ranged"} /\ lunar # null

\* arg is a date of the Gregorian calendar (new Date leaves it as it is).
ValidDate == UTCDate(DateUTC(arg.year, arg.month, arg.day)) = arg

\* Days from 1900-01-31 to arg.
argOffset == DateUTC(arg.year, arg.month, arg.day) - DateUTC(1900, 1, 31)

\* The length the table gives the month a LunarDate names.
resolvedMonthLength(L) ==
    IF L.isLeap THEN leapDays(L.year) ELSE monthDays(L.year, L.month)

\* The lengths of the lunar years a..b-1 together.
yearsLength[a \in 1900..2101, b \in 1900..2101] ==
    IF b <= a THEN 0
    ELSE IF b = a + 1 THEN lYearDaysOf[a]
    ELSE yearsLength[a, (a + b) \div 2] + yearsLength[(a + b) \div 2, b]

\* The first day of lunar year y, in days from 1900-01-31: the lengths of the
\* years before it.
firstDayOf == [y \in 1900..2101 |-> yearsLength[1900, y]]

\* The lengths of the ordinary months 1..m of lunar year y.
ordinaryDays[y \in 1900..2100, m \in 0..12] ==
    IF m = 0 THEN 0 ELSE ordinaryDays[y, m - 1] + monthDays(y, m)

\* The day after the last day of ordinary month leapMonth(y), for the years
\* that have a leap month.
leapStartOf ==
    [y \in 1900..2100 |->
        IF leapMonth(y) = 0 THEN 0 ELSE firstDayOf[y] + ordinaryDays[y, leapMonth(y)]]

\* The Gregorian date (lunar.day - 1) days after the start of the range.
dateBack ==
    UTCDate(DateUTC(range.start.year, range.start.month, range.start.day) + (lunar.day - 1))

-----------------------------------------------------------------------------
(* Properties *)

\* C1 as stated: for every valid Gregorian date D of 1901..2099, the start of
\* getLunarMonthSolarRange(L.year, L.month) plus (L.day - 1) days is D again,
\* where L = solarToLunar(D).
C1_RoundTripEveryDate ==
    (pc = "ranged" /\ ValidDate /\ arg.year \in 1901..2099) => dateBack = arg

\* C1 amended: the round trip gives D again for every valid date D of
\* 1901..2099 that solarToLunar places in an ordinary month (isLeap = false).
C1_RoundTripOrdinary ==
    (pc = "ranged" /\ ValidDate /\ arg.year \in 1901..2099 /\ ~lunar.isLeap)
        => dateBack = arg

\* A date of an ordinary month that follows the year's leap month has made
\* the round trip.
C1_Witness ==
    /\ pc = "ranged" /\ ValidDate /\ arg.year \in 1901..2099
    /\ ~lunar.isLeap
    /\ leapMonth(lunar.year) # 0 /\ lunar.month > leapMonth(lunar.year)
    /\ lunar.day > 1
    /\ dateBack = arg

\* C2: for every valid Gregorian date of the years 1900..2100 the result of
\* solarToLunar has 1 <= month <= 12 and 1 <= day <= the length of the
\* resolved month.
C2_MonthAndDayInRange ==
    (pc # "call" /\ ValidDate /\ arg.year \in 1900..2100) =>
        /\ lunar # null
        /\ lunar.month \in 1..12
        /\ lunar.day \in 1..resolvedMonthLength(lunar)

\* C3: solarToLunar(1900, 1, 31) is year 1900, month 1, day 1, isLeap false.
C3_Epoch ==
    (pc # "call" /\ arg = [year |-> 1900, month |-> 1, day |-> 31]) =>
        /\ lunar # null
        /\ lunar.year = 1900 /\ lunar.month = 1 /\ lunar.day = 1 /\ lunar.isLeap = FALSE

C3_Witness ==
    /\ pc = "returned"
    /\ arg = [year |-> 1900, month |-> 1, day |-> 31]
    /\ lunar # null /\ lunar.day = 1

\* C4: the dates that solarToLunar gives lunar year y and isLeap = true are
\* exactly the leapDays(y) days that begin the day after the last day of
\* ordinary month leapMonth(y); all of them have month = leapMonth(y), and the
\* day before the first of them is the last day of that ordinary month.
C4_LeapSpan ==
    (Accepted /\ lunar.year \in 1900..2100) =>
        LET y      == lunar.year
            k      == leapMonth(y)
            inSpan == /\ k # 0
                      /\ leapStartOf[y] <= argOffset
                      /\ argOffset < leapStartOf[y] + leapDays(y)
        IN  /\ firstDayOf[y] <= argOffset /\ argOffset < firstDayOf[y + 1]
            /\ lunar.isLeap <=> inSpan
            /\ lunar.isLeap =>
                   (lunar.month = k /\ lunar.day = argOffset - leapStartOf[y] + 1)
            /\ (inSpan /\ argOffset = leapStartOf[y]) =>
                   LET before == lunarOfOffset(argOffset - 1)
                   IN  /\ before.year = y /\ before.month = k /\ ~before.isLeap
                       /\ before.day = monthDays(y, k)

\* The last day of a 30-day leap month has been converted.
C4_Witness ==
    /\ Accepted
    /\ lunar.isLeap
    /\ lunar.day = 30 /\ leapDays(lunar.year) = 30

\* C5: isLeap = true only with month = leapMonth(year), and never in a year
\* whose leapMonth is 0.
C5_LeapFlagExclusive ==
    (Accepted /\ lunar.isLeap) =>
        (leapMonth(lunar.year) # 0 /\ lunar.month = leapMonth(lunar.year))

\* A date has been returned with isLeap = true, in the leap month of its year.
C5_Witness ==
    /\ Accepted
    /\ lunar.isLeap
    /\ lunar.day > 1
    /\ lunar.month = leapMonth(lunar.year)

\* C6: solarToLunar returns null for every year below 1900 or above 2100.
C6_NullOutOfRange ==
    (pc # "call" /\ (arg.year < 1900 \/ arg.year > 2100)) => lunar = null

C6_Witness ==
    /\ pc = "returned"
    /\ arg = [year |-> 2101, month |-> 1, day |-> 1]
    /\ lunar = null

\* C7: the monthDays field of the result is 29 or 30 and is the length of the
\* resolved month (stated for the dates from the epoch 1900-01-31 on, whose
\* lunar year is a year of the table).
C7_MonthDaysField ==
    (Accepted /\ argOffset >= 0) =>
        /\ lunar.monthDays \in {29, 30}
        /\ lunar.monthDays = resolvedMonthLength(lunar)

\* C8: on Feb 3 of year Y the resolver returns year Y - 1 and month 12, on
\* Feb 5 of year Y it returns year Y and month 1.
C8_LiChunBoundary ==
    (jieqi # null /\ arg.month = 2) =>
        /\ arg.day = 3 => (jieqi.year = arg.year - 1 /\ jieqi.month = 12)
        /\ arg.day = 5 => (jieqi.year = arg.year /\ jieqi.month = 1)

C8_Witness ==
    /\ jieqi # null
    /\ arg.month = 2 /\ arg.day = 5
    /\ jieqi.month = 1

\* C9: the resolver returns year Y - 1 in January and on Feb 1..3, and year Y
\* on every other date.
C9_JieQiYear ==
    jieqi # null =>
        jieqi.year = (IF arg.month = 1 \/ (arg.month = 2 /\ arg.day < 4)
                      THEN arg.year - 1 ELSE arg.year)

C9_Witness ==
    /\ jieqi # null
    /\ arg.month = 2 /\ arg.day = 4
    /\ jieqi.year = arg.year

\* C10: the resolver returns a month of 1..12 with a name and a short name of
\* the tables, and its table walk matches an entry on every date.
C10_AlwaysResolves ==
    (pc = "returned" /\ jieqi # null) =>
        /\ matched
        /\ jieqi.month \in 1..12
        /\ jieqi.monthName = jieQiMonthNames[jieqi.month]
        /\ jieqi.shortName = Concat(jieQiMonthShortNames[jieqi.month], "yue")

\* The last day of December has been resolved by the table's last entry.
C10_Witness ==
    /\ jieqi # null
    /\ arg.month = 12 /\ arg.day = 31
    /\ matched /\ jieqi.month = 11

\* The sum of the first n entries of a sequence of numbers.
sumOf[n \in Nat, seq \in Seq(Int)] == IF n = 0 THEN 0 ELSE sumOf[n - 1, seq] + seq[n]

\* C11: for every year of 1900..2100, lYearDays(y) is the sum of
\* monthDays(y, m) over m = 1..12 plus leapDays(y).
C11_DayCountConservation ==
    (yearDays # null /\ arg.year \in 1900..2100) =>
        yearDays.total = sumOf[12, yearDays.months] + yearDays.leap

\* A year with a leap month has been decoded.
C11_Witness ==
    /\ yearDays # null
    /\ arg.year \in 1900..2100
    /\ yearDays.leap = 30
    /\ yearDays.total = sumOf[12, yearDays.months] + 30

\* C12: for every year of 1900..2100, lYearDays(y) lies in 353..385.
C12_YearLength ==
    (yearDays # null /\ arg.year \in 1900..2100) => yearDays.total \in 353..385

\* A year of the greatest length has been decoded.
C12_Witness ==
    /\ yearDays # null
    /\ arg.year \in 1900..2100
    /\ yearDays.total = 385

\* Gregorian date a is earlier than Gregorian date b.
dateBefore(a, b) ==
    \/ a.year < b.year
    \/ a.year = b.year /\ a.month < b.month
    \/ a.year = b.year /\ a.month = b.month /\ a.day < b.day

\* C13: for every lunar year y of 1900..2100 and month m of 1..11, the start
\* of the range of month m is an earlier date than the start of the range of
\* month m + 1.
C13_StartsIncrease ==
    (pc = "rangedNext" /\ arg.year \in 1900..2100 /\ arg.month \in 1..11) =>
        /\ range # null /\ rangeNext # null
        /\ dateBefore(range.start, rangeNext.start)

\* The ranges of a month that hosts a leap month and of the month after it,
\* in two different Gregorian months.
C13_Witness ==
    /\ pc = "rangedNext"
    /\ arg.year \in 1900..2100
    /\ arg.month = leapMonth(arg.year)
    /\ arg.month \in 1..11
    /\ range # null /\ rangeNext # null
    /\ dateBefore(range.start, rangeNext.start)

\* C14: the labels of the result are those of the indices (year - 4) mod 10
\* and (year - 4) mod 12 of the resolved lunar year; the labels of the year
\* after have the next indices mod 10 and mod 12; and the pair of labels
\* comes back after 60 years and after no fewer.
C14_StemBranchCycle ==
    Accepted =>
        LET y == lunar.year
            g == (y - 4) % 10
            z == (y - 4) % 12
        IN  /\ lunar.yearGan = Gan[g + 1]
            /\ lunar.yearZhi = Zhi[z + 1]
            /\ lunar.animal = Animals[z + 1]
            /\ yearGanOf(y + 1) = Gan[((g + 1) % 10) + 1]
            /\ yearZhiOf(y + 1) = Zhi[((z + 1) % 12) + 1]
            /\ \A p \in 1..60 :
                   (yearGanOf(y + p) = lunar.yearGan /\ yearZhiOf(y + p) = lunar.yearZhi)
                       <=> p = 60

\* A date of the lunar year 1984, the first year of a cycle, has been
\* converted.
C14_Witness ==
    /\ Accepted
    /\ lunar.year = 1984
    /\ lunar.yearGan = "jia" /\ lunar.yearZhi = "zi" /\ lunar.animal = "shu"

\* C15: getLunarMonthSolarRange returns null when the year is outside
\* 1900..2100 or the month outside 1..12, and a {start, end, days} otherwise.
C15_RangeOrNull ==
    (pc \in {"ranged", "rangedNext"} /\ arg.day = 1 /\ lunar = null) =>
        IF arg.year < 1900 \/ arg.year > 2100 \/ arg.month < 1 \/ arg.month > 12
        THEN range = null
        ELSE /\ range # null
             /\ DOMAIN range = {"start", "end", "days"}
             /\ DOMAIN range.start = {"year", "month", "day"}
             /\ DOMAIN range.end = {"year", "month", "day"}

\* Month 12 of the last year of the table has a range.
C15_Witness ==
    /\ pc = "ranged"
    /\ lunar = null
    /\ arg.year = 2100 /\ arg.month = 12
    /\ range # null /\ range.days \in {29, 30}

\* C16: getJieQiMonthName and getJieQiMonthShortName return the empty string
\* for a month outside 1..12 and the table entry of a month inside, which is
\* the monthName and shortName getCurrentJieQiYearMonth returns with that
\* month.
C16_NameLookups ==
    pc = "named" =>
        /\ names.month \notin 1..12 => (names.monthName = "" /\ names.shortName = "")
        /\ names.month \in 1..12 =>
               /\ names.monthName = jieQiMonthNames[names.month]
               /\ names.shortName = jieQiMonthShortNames[names.month] \o "yue"
        /\ names.month = jieqi.month =>
               (names.monthName = jieqi.monthName /\ names.shortName = jieqi.shortName)

\* The names of the month the resolver has just returned have been looked up.
C16_Witness ==
    /\ pc = "named"
    /\ names.month = jieqi.month
    /\ names.month = 12
    /\ names.shortName = "chouyue" /\ jieqi.shortName = "chouyue"

\* C17: no operation of the lunar engine throws for out-of-range input; in
\* particular getCurrentLunarYearMonth completes without throwing when the
\* year of the system date lies outside 1900..2100.
C17_NeverThrows ==
    pc # "threw"

\* Whether the request carries a token that verifies, of a user whose row is
\* in the table before the step.
validUser(authorization) ==
    /\ authorization.scheme = "Bearer"
    /\ authorization.verifies
    /\ authorization.userId \in UserIds
    /\ users[authorization.userId].exists

\* C18: the handler of a route under /api/admin runs only for a valid token of
\* an existing user whose is_admin is 1 at the request; without a valid
\* token or for a deleted user the answer is 401, for a non-admin 403, and in
\* both cases no handler runs and the users table is unchanged.
C18_AdminRoutesNeedAdmin ==
    [][req'.route \in AdminRoutes =>
          LET authorization == req'.authorization
          IN  /\ res'.handler =>
                    (validUser(authorization) /\ users[authorization.userId].is_admin = 1)
              /\ ~validUser(authorization) =>
                    /\ res'.status = 401 /\ ~res'.handler
                    /\ users' = users /\ lastId' = lastId
              /\ (validUser(authorization) /\ users[authorization.userId].is_admin # 1) =>
                    /\ res'.status = 403 /\ ~res'.handler
                    /\ users' = users /\ lastId' = lastId]_vars

\* A user who is not an admin has asked, with a token of their own, for the
\* admin's password to be reset, and has been answered 403.
C18_Witness ==
    /\ req.route = "POST /api/admin/users/:id/reset-password"
    /\ req.authorization = Token(2) /\ req.id = 1
    /\ users[2].exists /\ users[2].is_admin = 0
    /\ res.status = 403 /\ ~res.handler

\* The new password passes validatePasswordStrength's limits.
lengthAllowed(password) ==
    ~Falsy(password) /\ Len(password) >= 6 /\ Len(password) <= 50

\* C19: user creation and reset-password set must_change_password to 1;
\* change-password asks for no old password exactly when the flag is 1 and
\* for one that verifies when it is 0; a successful change sets the flag to
\* 0; a rejected change (missing field, wrong old password, new password
\* shorter than 6 or longer than 50) leaves password_hash and flag unchanged.
C19_MustChangePasswordLifecycle ==
    [][LET id   == req'.authorization.userId
           old  == req'.oldPassword
           new  == req'.newPassword
       IN  /\ (req'.route = "POST /api/admin/users" /\ res'.status = 200) =>
                 /\ lastId' = lastId + 1
                 /\ users'[lastId'].exists /\ users'[lastId'].must_change_password = 1
           /\ (req'.route = "POST /api/admin/users/:id/reset-password" /\ res'.status = 200) =>
                 users'[req'.id].must_change_password = 1
           /\ (req'.route = "POST /api/auth/change-password" /\ validUser(req'.authorization)) =>
                 /\ users[id].must_change_password = 1 =>
                       (res'.status = 200 <=> lengthAllowed(new))
                 /\ users[id].must_change_password = 0 =>
                       (res'.status = 200 <=>
                           /\ lengthAllowed(new)
                           /\ ~Falsy(old) /\ verifyPassword(old, users[id].password_hash))
                 /\ res'.status = 200 =>
                       /\ users'[id].must_change_password = 0
                       /\ users'[id].password_hash = hashPassword(new)
                 /\ res'.status # 200 => (res'.status = 400 /\ users' = users)
           /\ (req'.route = "POST /api/auth/change-password" /\ ~validUser(req'.authorization)) =>
                 users' = users]_vars

\* A created user, whose flag was 1, has changed the password without
\* sending an old one, and the flag is 0.
C19_Witness ==
    /\ req.route = "POST /api/auth/change-password"
    /\ req.authorization = Token(2)
    /\ req.oldPassword = Undefined /\ req.newPassword = Exact50
    /\ res.status = 200
    /\ users[2].must_change_password = 0
    /\ users[2].password_hash = hashPassword(Exact50)

\* C20: while a user's must_change_password is 1, that user's authenticated
\* requests to the routes under /api/admin are not served.
C20_NotServedBeforeChange ==
    [][(/\ req'.route \in AdminRoutes
        /\ validUser(req'.authorization)
        /\ users[req'.authorization.userId].must_change_password = 1)
       => ~res'.handler]_vars

\* The lunar date that follows L in the table's calendar.
lunarSuccessor(L) ==
    IF L.day < resolvedMonthLength(L)
    THEN [year |-> L.year, month |-> L.month, day |-> L.day + 1, isLeap |-> L.isLeap]
    ELSE IF ~L.isLeap /\ L.month = leapMonth(L.year)
    THEN [year |-> L.year, month |-> L.month, day |-> 1, isLeap |-> TRUE]
    ELSE IF L.month < 12
    THEN [year |-> L.year, month |-> L.month + 1, day |-> 1, isLeap |-> FALSE]
    ELSE [year |-> L.year + 1, month |-> 1, day |-> 1, isLeap |-> FALSE]

\* C21: for consecutive days D and D+1 from 1900-01-31 to 2100-12-31,
\* solarToLunar(D+1) is the lunar date that follows solarToLunar(D): the next
\* day of the month, or day 1 of the leap month, of the next month, or of
\* month 1 of the next year.
C21_Successor ==
    (pc = "advanced" /\ lunar # null /\ lunarNext # null /\ argOffset >= 0) =>
        /\ lunarNext.year = lunarSuccessor(lunar).year
        /\ lunarNext.month = lunarSuccessor(lunar).month
        /\ lunarNext.day = lunarSuccessor(lunar).day
        /\ lunarNext.isLeap = lunarSuccessor(lunar).isLeap

\* The day after the last day of an ordinary month has been converted to day 1
\* of the leap month that follows it.
C21_Witness ==
    /\ pc = "advanced" /\ lunar # null /\ lunarNext # null /\ argOffset >= 0
    /\ ~lunar.isLeap /\ lunar.day = 30
    /\ lunarNext.isLeap /\ lunarNext.day = 1 /\ lunarNext.month = lunar.month

\* The Gregorian year of arg once Date.UTC has normalised it.
argYear == UTCDate(DateUTC(arg.year, arg.month, arg.day)).year

\* The lunar years that can hold a day of Gregorian year argYear.
yearsAround == {y \in {argYear - 1, argYear} : 1900 <= y /\ y <= 2100}

\* C22: in a year with leap month k, the date on which the month walk stops
\* with offset 0 right after ordinary month k is (k, 1, leap), and the date on
\* which it stops with offset 0 right after the leap month is (k + 1, 1, not leap).
C22_TieBreak ==
    (Accepted /\ pc = "returned") =>
        \A y \in yearsAround :
            leapMonth(y) # 0 =>
                /\ argOffset = leapStartOf[y] =>
                       /\ lunar.year = y /\ lunar.month = leapMonth(y)
                       /\ lunar.day = 1 /\ lunar.isLeap
                /\ argOffset = leapStartOf[y] + leapDays(y) =>
                       /\ lunar.year = y /\ lunar.month = leapMonth(y) + 1
                       /\ lunar.day = 1 /\ ~lunar.isLeap

\* The first day after a leap month has been converted.
C22_Witness ==
    /\ Accepted /\ pc = "returned"
    /\ \E y \in yearsAround :
           /\ leapMonth(y) # 0
           /\ argOffset = leapStartOf[y] + leapDays(y)
           /\ lunar.month = leapMonth(y) + 1 /\ lunar.day = 1 /\ ~lunar.isLeap

\* C23: for every lunar year y of 1900..2100 and month m of 1..12, with r the
\* range of (y, m): solarToLunar of r.start is day 1 of ordinary month m of
\* year y and solarToLunar of r.end is day r.days of it, for each of the two
\* dates whose Gregorian year is at most 2100.
C23_Inverse ==
    (pc = "inverted" /\ arg.year \in 1900..2100 /\ arg.month \in 1..12) =>
        /\ range.start.year <= 2100 =>
               /\ inverse.start # null
               /\ inverse.start.year = arg.year /\ inverse.start.month = arg.month
               /\ inverse.start.day = 1 /\ ~inverse.start.isLeap
        /\ range.end.year <= 2100 =>
               /\ inverse.end # null
               /\ inverse.end.year = arg.year /\ inverse.end.month = arg.month
               /\ inverse.end.day = range.days /\ ~inverse.end.isLeap

\* The two ends of the month right after a leap month have been converted back.
C23_Witness ==
    /\ pc = "inverted" /\ arg.year \in 1900..2100 /\ arg.month \in 2..12
    /\ arg.month = leapMonth(arg.year) + 1
    /\ inverse.start # null /\ inverse.end # null
    /\ inverse.start.month = arg.month /\ inverse.start.day = 1
    /\ inverse.end.day = range.days

\* The day number of a Gregorian date.
dayNumber(date) == DateUTC(date.year, date.month, date.day)

\* C24: for every y of 1900..2100 and m of 1..12, days = monthDays(y, m) and
\* end is days - 1 days after start; for m < 12 the start of month m + 1 is
\* monthDays(y, m) days after the start of month m, and leapDays(y) more when
\* m = leapMonth(y), so that the days of the leap month lie between the end of
\* its host month and the start of the next; for y < 2100 the start of
\* (y + 1, 1) is lYearDays(y) days after the start of (y, 1).
C24_RangeArithmetic ==
    (pc = "rangedNextYear" /\ arg.year \in 1900..2100 /\ arg.month \in 1..12) =>
        /\ range # null
        /\ range.days = monthDays(arg.year, arg.month)
        /\ dayNumber(range.end) = dayNumber(range.start) + (range.days - 1)
        /\ arg.month < 12 =>
               /\ rangeNext # null
               /\ dayNumber(rangeNext.start) =
                      dayNumber(range.start) + monthDays(arg.year, arg.month)
                      + (IF arg.month = leapMonth(arg.year) THEN leapDays(arg.year) ELSE 0)
               /\ arg.month = leapMonth(arg.year) =>
                      dayNumber(rangeNext.start) - dayNumber(range.end) - 1 = leapDays(arg.year)
        /\ (arg.year < 2100 /\ arg.month = 1) =>
               /\ rangeNextYear # null
               /\ dayNumber(rangeNextYear.start) =
                      dayNumber(range.start) + lYearDays(arg.year)

\* The ranges around a leap month of 29 days: the next month starts 30 days
\* after the end of the host month.
C24_Witness ==
    /\ pc = "rangedNextYear" /\ arg.year \in 1900..2100 /\ arg.month \in 1..11
    /\ arg.month = leapMonth(arg.year) /\ leapDays(arg.year) = 29
    /\ range # null /\ rangeNext # null
    /\ dayNumber(rangeNext.start) = dayNumber(range.end) + 30

\* The day of each Gregorian month, January first, on which a solar-term
\* month starts.
startDayOf == <<6, 4, 6, 5, 6, 6, 7, 8, 8, 8, 7, 7>>

\* C25: on a date of Gregorian month g the resolver returns month
\* ((g + 10) mod 12) + 1 from the start day of g on (Jan 6, Feb 4, Mar 6,
\* Apr 5, May 6, Jun 6, Jul 7, Aug 8, Sep 8, Oct 8, Nov 7, Dec 7) and the
\* month before it, 12 before 1, on the earlier days.
C25_MonthResolution ==
    (pc = "returned" /\ jieqi # null /\ arg.month \in 1..12) =>
        jieqi.month = (IF arg.day >= startDayOf[arg.month]
                       THEN ((arg.month + 10) % 12) + 1
                       ELSE ((arg.month + 9) % 12) + 1)

\* The day before the start day of October has been resolved to month 8.
C25_Witness ==
    /\ pc = "returned" /\ jieqi # null
    /\ arg.month = 10 /\ arg.day = 7
    /\ jieqi.month = 8

\* C26: when the date advances by one calendar day, the (year, month) of the
\* resolver stays the same or moves to the next key, (year, month + 1) below
\* month 12 and (year + 1, 1) from month 12; the year changes on no other step.
C26_KeyAdvances ==
    (pc = "resolvedNext" /\ ValidDate) =>
        \/ jieqiNext.year = jieqi.year /\ jieqiNext.month = jieqi.month
        \/ jieqi.month < 12 /\ jieqiNext.year = jieqi.year /\ jieqiNext.month = jieqi.month + 1
        \/ jieqi.month = 12 /\ jieqiNext.year = jieqi.year + 1 /\ jieqiNext.month = 1

\* The step from Feb 3 to Feb 4 has taken the key from month 12 to month 1 of
\* the next year.
C26_Witness ==
    /\ pc = "resolvedNext" /\ ValidDate
    /\ arg.month = 2 /\ arg.day = 3
    /\ jieqi.month = 12 /\ jieqiNext.month = 1 /\ jieqiNext.year = jieqi.year + 1

\* Bit 16 of the encoding of year y, read off the table by division.
bit16Of(y) == (lunarInfo[y - 1900 + 1] \div 65536) % 2 = 1

\* C27: for every year y of 1900..2100, leapMonth(y) is in 0..12, leapDays(y)
\* is 0 exactly when leapMonth(y) is 0 and otherwise 30 with bit 16 of the
\* encoding set and 29 without, bit 16 is set only in a year with a leap
\* month, and the table has 201 encodings.
C27_TableWellFormed ==
    (pc = "decoded" /\ arg.year \in 1900..2100) =>
        /\ decoded.leapMonth \in 0..12
        /\ decoded.leapDays = 0 <=> decoded.leapMonth = 0
        /\ decoded.leapMonth # 0 =>
               decoded.leapDays = (IF bit16Of(arg.year) THEN 30 ELSE 29)
        /\ bit16Of(arg.year) => decoded.leapMonth # 0
        /\ decoded.size = 201

\* A year whose leap month has 30 days has been decoded.
C27_Witness ==
    /\ pc = "decoded" /\ arg.year \in 1900..2100
    /\ bit16Of(arg.year)
    /\ decoded.leapMonth \in 1..12 /\ decoded.leapDays = 30

\* The lock columns row hold a login lock whose time has not passed at clock.
loginLocked(row, clock) ==
    row.login_locked_until # null /\ row.login_locked_until.minute > clock

\* The lock columns row hold a login lock whose time has passed at clock.
lockExpired(row, clock) ==
    row.login_locked_until # null /\ row.login_locked_until.minute <= clock

\* A failed password check that brings login_fail_count of user id to
\* login_max_attempts or more sets login_locked_until login_lock_minutes ahead.
lockSetAhead(id) ==
    (/\ LoginAfterVerify /\ req'.id = id
     /\ locks'[id].login_fail_count = locks[id].login_fail_count + 1
     /\ locks'[id].login_fail_count >= login_max_attempts) =>
        locks'[id].login_locked_until = [minute |-> now + login_lock_minutes]

\* A login of user id that succeeds sets login_fail_count to 0 and
\* login_locked_until to NULL.
successResets(id) ==
    (LoginAfterVerify /\ req'.id = id /\ res'.status = 200) =>
        /\ locks'[id].login_fail_count = 0
        /\ locks'[id].login_locked_until = null
        /\ id \in issued'

\* The step answers 403, issues no token and leaves the lock columns of user
\* id as they are.
refused(id) ==
    /\ res' # null /\ res'.status = 403
    /\ issued' = issued
    /\ locks'[id] = locks[id]

\* C28 as stated: a failed password check that brings login_fail_count to
\* login_max_attempts or more sets login_locked_until login_lock_minutes ahead;
\* while that time has not passed, every POST /api/auth/login for the user is
\* answered 403, issues no token and leaves login_fail_count and
\* login_locked_until as they are; a login that succeeds sets login_fail_count
\* to 0 and login_locked_until to NULL.
C28_EveryLoginRefused ==
    [][\A id \in UserIds :
          /\ lockSetAhead(id)
          /\ ((LoginUntilVerify \/ LoginAfterVerify) /\ req'.id = id
                  /\ loginLocked(locks[id], now)) => refused(id)
          /\ successResets(id)
      ]_vars

\* C28 amended: the same, for the logins that arrive with a username and a
\* password while the time of the lock has not passed; they are refused
\* before the password is looked at.
C28_LoginLockout ==
    [][\A id \in UserIds :
          /\ lockSetAhead(id)
          /\ (LoginUntilVerify /\ req'.id = id /\ ~Falsy(req'.password)
                  /\ loginLocked(locks[id], now)) =>
                 (refused(id) /\ inflight' = inflight)
          /\ successResets(id)
      ]_vars

\* A login with the right password has arrived while the lock of the fifth
\* failure was in force, and has been answered 403.
C28_Witness ==
    /\ req.route = "POST /api/auth/login" /\ ~req.resumed
    /\ req.id = 1 /\ req.password = adminPassword
    /\ res # null /\ res.status = 403
    /\ locks[1].login_fail_count = login_max_attempts
    /\ loginLocked(locks[1], now)
    /\ 1 \notin issued

\* C29: once a login lock has expired, one failed login does not lock the
\* account again, and login_fail_count never exceeds login_max_attempts.
C29_AttemptsAfterExpiry ==
    [][\A id \in UserIds :
          (/\ LoginAfterVerify /\ req'.id = id
           /\ lockExpired(locks[id], now)
           /\ locks'[id].login_fail_count = locks[id].login_fail_count + 1) =>
              /\ ~loginLocked(locks'[id], now')
              /\ locks'[id].login_fail_count <= login_max_attempts
      ]_vars

\* C30: every stored mingpi record has lunar_year in 1900..2100 and
\* lunar_month in 1..12, and no two records have the same user_id, lunar_year
\* and lunar_month.
C30_RecordsWellFormed ==
    /\ \A row \in mingpi :
           /\ row.lunar_year \in 1900..2100
           /\ row.lunar_month \in 1..12
    /\ \A a, b \in mingpi :
           (/\ a.user_id = b.user_id
            /\ a.lunar_year = b.lunar_year
            /\ a.lunar_month = b.lunar_month) => a = b

====
